---- MODULE Spec2Model ----
(***************************************************************************)
(* Reply tracking and reminder scheduling of the LINE reminder bot.        *)
(*                                                                         *)
(* The repository holds several generations of the same server.  Three of  *)
(* them are modelled, selected by the variable `variant`:                  *)
(*   "p5"  src/unnamed/part_005  (confirmation tokens, forced reminders)   *)
(*   "p4"  src/unnamed/part_004  (inline commands, send-reply API)         *)
(*   "app" src/app.js            (messageLog, auto replies, batch reminder)*)
(*                                                                         *)
(* Node runs every handler to its next `await` without interruption, so    *)
(* one action is the code between two awaits.  A handler suspended at an   *)
(* await is an element of `tasks`; the action that resumes it takes the    *)
(* outcome of the awaited call (ok = it succeeded, ~ok = it failed) as     *)
(* input.  Code that neither reads nor writes the store commutes with      *)
(* every other handler, so it is joined to the step that follows or        *)
(* precedes it: an await between two such pieces is not a separate step.   *)
(*                                                                         *)
(* Time is counted in abstract ticks; Date.now() is `now`.  The code only  *)
(* compares differences of times against thresholds, so the thresholds     *)
(* (threeHoursMs, oneDayMs, oneMinuteInMs) are scaled down to ticks.       *)
(* SLACK_WEBHOOK_URL is taken to be configured.                            *)
(***************************************************************************)
EXTENDS Integers, Sequences, FiniteSets, TLC

VARIABLES
  variant,              \* which generation of the server is running
  now,                  \* Date.now()
  conversations,        \* part_004/part_005: const conversations = {}
  keys,                 \* insertion order of the store's keys (for..in order)
  messageLog,           \* app.js: const messageLog = {}
  isCheckingUnreplied,  \* the sweep's busy flag
  tasks,                \* handlers suspended at an await
  tokens,               \* number of security tokens generated so far
  hist,                 \* per conversation: kind of its last state-changing operation
  emitLog,              \* reminders emitted so far by the sweep in progress
  debugLogs,            \* const debugLogs = []: followed under SpecLog only; the
                        \* handlers' own log lines are not modelled, no handler
                        \* acts on the log's content
  last                  \* outcome of the operation the last step completed

vars == <<variant, now, conversations, keys, messageLog, isCheckingUnreplied,
          tasks, tokens, hist, emitLog, debugLogs, last>>

----------------------------------------------------------------------------
(* Bounds *)

MaxTime == 3
MaxTasks == 1
MaxTokens == 2
MaxReminders == 1
MaxSweepTokens == 3

(* Program constants, in ticks *)

threeHoursMs == 1
oneDayMs == 1
oneMinuteInMs == 1
oneDayInMs == 1

----------------------------------------------------------------------------
(* Identities and records *)

Users == {"U1", "U2"}
TestUser == "U_TEST_USER"
AllIds == Users \cup {TestUser}
NoUser == ""
NoToken == 0

(* userMessage: { text, timestamp, id } or absent; the id is never read. *)
NoMessage == [set |-> FALSE, text |-> "", timestamp |-> 0]
Message(text, ts) == [set |-> TRUE, text |-> text, timestamp |-> ts]

(* botReply: { text, timestamp, id } or null; only its text is kept, the
   reply texts of different operations being different. *)
NoReply == [set |-> FALSE, text |-> ""]
Reply(text) == [set |-> TRUE, text |-> text]

(* An absent key of `conversations`. *)
NoConversation ==
  [exists |-> FALSE, userMessage |-> NoMessage, botReply |-> NoReply,
   needsReply |-> FALSE, sourceType |-> "", lastReminderTime |-> 0,
   reminderCount |-> 0, securityToken |-> NoToken]

(* An absent key of `messageLog`; repliedAt = 0 is the missing property. *)
NoLogEntry ==
  [exists |-> FALSE, messageText |-> "", timestamp |-> 0, sourceType |-> "",
   needsReply |-> FALSE, repliedAt |-> 0]

(* A suspended handler: its kind, the await it is at, and its locals
   (`command` is the command text of the event a reply answers).  `copy`
   numbers handlers that are otherwise equal. *)
NewTask ==
  [kind |-> "", userId |-> NoUser, command |-> "", text |-> "", now |-> 0,
   reminderCount |-> 0, unreplied |-> <<>>, copy |-> 1]

Twins(T, r) == {x \in T : [x EXCEPT !.copy = 1] = [r EXCEPT !.copy = 1]}
Suspend(T, r) == T \cup {[r EXCEPT !.copy = Cardinality(Twins(T, r)) + 1]}
Finish(T, r) == T \ {[r EXCEPT !.copy = Cardinality(Twins(T, r))]}

(* MaxTasks bounds the requests in flight; the sweep is not a request, and
   its own flag bounds it. *)
Requests(T) == {x \in T : x.kind # "sweep"}
CanSuspend == Cardinality(Requests(tasks)) < MaxTasks

Append1(s, x) == IF \E i \in 1..Len(s) : s[i] = x THEN s ELSE Append(s, x)

Has(userId) == userId \in AllIds /\ conversations[userId].exists
HasLog(userId) == userId \in AllIds /\ messageLog[userId].exists

(* part_005 generateSecurityToken: crypto.randomBytes(16), taken as never
   repeating: the token generated after k others is the number k + 1. *)
generateSecurityToken(k) == k + 1

----------------------------------------------------------------------------
(* handleLineEvent (part_004 lines 154-250, part_005 lines 169-260) *)

(* A filter that lets every text through. *)
GroupCommandsAndMessages == {"hello", "status", "debuglog", "reset", "mark"}

(* The texts the group/room filter lets through. *)
GroupCommands ==
  IF variant = "p5" THEN {"status", "debuglog"}
  ELSE {"status", "debuglog", "reset", "mark"}

(* A comparison of commands that ignores letter case. *)
CommandsIgnoringCase == {"reset", "mark", "status", "Status", "debuglog"}

(* The texts handleLineEvent treats as a command of a repliable event. *)
Commands ==
  IF variant = "p5" THEN {"status", "debuglog"}
  ELSE {"reset", "mark", "status", "debuglog"}

(* A mark-replied path that spends the token it was given. *)
MarkRepliedSpendingToken(c) ==
  [c EXCEPT !.needsReply = FALSE, !.lastReminderTime = 0, !.reminderCount = 0,
            !.securityToken = NoToken]

(* A mark-replied path that forgets the flag itself. *)
MarkRepliedKeepsNeedsReply(c) ==
  [c EXCEPT !.lastReminderTime = 0, !.reminderCount = 0]

(* The three assignments every mark-replied path of part_004/part_005 makes. *)
MarkReplied(c) ==
  [c EXCEPT !.needsReply = FALSE, !.lastReminderTime = 0, !.reminderCount = 0]

(* part_004 replyAndRecord / send-reply after a successful platform call. *)
RecordReply(c, text) ==
  [MarkReplied(c) EXCEPT !.botReply = Reply(text)]

(* A write that flags the record without storing the message. *)
RecordUserMessageWithoutMessage(c, text, ts, sourceType, token) ==
  IF ~c.exists
  THEN [exists |-> TRUE, userMessage |-> NoMessage, botReply |-> NoReply,
        needsReply |-> TRUE, sourceType |-> sourceType, lastReminderTime |-> 0,
        reminderCount |-> 0, securityToken |-> token]
  ELSE [c EXCEPT !.needsReply = TRUE, !.lastReminderTime = 0,
                 !.reminderCount = 0, !.securityToken = token]

(* A write that leaves the reminder fields of an existing record alone. *)
RecordUserMessageKeepsReminders(c, text, ts, sourceType, token) ==
  IF ~c.exists
  THEN [exists |-> TRUE, userMessage |-> Message(text, ts), botReply |-> NoReply,
        needsReply |-> TRUE, sourceType |-> sourceType, lastReminderTime |-> 0,
        reminderCount |-> 0, securityToken |-> token]
  ELSE [c EXCEPT !.userMessage = Message(text, ts), !.needsReply = TRUE,
                 !.securityToken = token]

(* A write that leaves the token of an existing record alone. *)
RecordUserMessageKeepsToken(c, text, ts, sourceType, token) ==
  IF ~c.exists
  THEN [exists |-> TRUE, userMessage |-> Message(text, ts), botReply |-> NoReply,
        needsReply |-> TRUE, sourceType |-> sourceType, lastReminderTime |-> 0,
        reminderCount |-> 0, securityToken |-> token]
  ELSE [c EXCEPT !.userMessage = Message(text, ts), !.needsReply = TRUE,
                 !.lastReminderTime = 0, !.reminderCount = 0]

(* handleLineEvent's write of a repliable, non-command message. *)
RecordUserMessage(c, text, ts, sourceType, token) ==
  IF ~c.exists
  THEN [exists |-> TRUE, userMessage |-> Message(text, ts), botReply |-> NoReply,
        needsReply |-> TRUE, sourceType |-> sourceType, lastReminderTime |-> 0,
        reminderCount |-> 0, securityToken |-> token]
  ELSE [c EXCEPT !.userMessage = Message(text, ts), !.needsReply = TRUE,
                 !.lastReminderTime = 0, !.reminderCount = 0,
                 !.securityToken = token]

(* A RESET that passes over the records a reminder was sent for. *)
ResetAllNeverReminded(convs) ==
  [id \in AllIds |->
     IF convs[id].exists /\ convs[id].reminderCount = 0
     THEN [convs[id] EXCEPT !.needsReply = FALSE] ELSE convs[id]]

(* The RESET command's loop over the store. *)
ResetAll(convs) ==
  [id \in AllIds |->
     IF convs[id].exists THEN [convs[id] EXCEPT !.needsReply = FALSE] ELSE convs[id]]

(* handleLineEvent up to its first await after the profile lookup.  Before
   the lookup returns the handler has touched nothing but the event, whose
   timestamp is the platform's and not the server's clock: the step happens
   when the lookup returns, for an event stamped at or before that time.  A
   command of part_004 goes on to replyAndRecord and is suspended at its
   client.replyMessage; every other event is finished (the notification
   awaited after the write has no continuation).  The reply's wording is
   not modelled: every command's reply is the text "reply". *)
HandleLineEvent(userId, messageText, sourceType, isFromUser, timestamp) ==
  LET token == IF variant = "p5" THEN generateSecurityToken(tokens) ELSE NoToken
      reply == [NewTask EXCEPT !.kind = "reply", !.userId = userId,
                               !.command = messageText, !.text = "reply"]
  IN
  /\ variant \in {"p4", "p5"}
  /\ timestamp \in 1..now
  /\ UNCHANGED <<debugLogs, variant, now, messageLog, isCheckingUnreplied, emitLog>>
  /\ IF sourceType \in {"group", "room"} /\ messageText \notin GroupCommands
     THEN /\ last' = "event:skipped"
          /\ UNCHANGED <<conversations, keys, tasks, tokens, hist>>
     ELSE IF ~isFromUser
     THEN /\ last' = "event:notFromUser"
          /\ UNCHANGED <<conversations, keys, tasks, tokens, hist>>
     ELSE IF variant = "p5" /\ messageText \in Commands
     THEN /\ last' = "event:reported"
          /\ UNCHANGED <<conversations, keys, tasks, tokens, hist>>
     ELSE IF messageText = "reset"
     THEN /\ CanSuspend
          /\ conversations' = ResetAll(conversations)
          /\ hist' = [id \in AllIds |-> IF Has(id) THEN "Cleared" ELSE hist[id]]
          /\ tasks' = Suspend(tasks, reply)
          /\ last' = "reset:cleared"
          /\ UNCHANGED <<keys, tokens>>
     ELSE IF messageText = "mark"
     THEN /\ CanSuspend
          /\ conversations' =
               IF Has(userId)
               THEN [conversations EXCEPT ![userId].needsReply = FALSE]
               ELSE conversations
          /\ hist' = IF Has(userId) THEN [hist EXCEPT ![userId] = "Cleared"] ELSE hist
          /\ tasks' = Suspend(tasks, reply)
          /\ last' = IF Has(userId) THEN "mark:cleared" ELSE "mark:unknown"
          /\ UNCHANGED <<keys, tokens>>
     ELSE IF messageText \in Commands
     THEN /\ CanSuspend
          /\ tasks' = Suspend(tasks, reply)
          /\ last' = "status:replying"
          /\ UNCHANGED <<conversations, keys, tokens, hist>>
     ELSE /\ conversations' = [conversations EXCEPT ![userId] =
               RecordUserMessage(conversations[userId], messageText, timestamp,
                                 sourceType, token)]
          /\ keys' = Append1(keys, userId)
          /\ tokens' = IF variant = "p5" THEN tokens + 1 ELSE tokens
          /\ hist' = [hist EXCEPT ![userId] = "UserMessage"]
          /\ last' = IF ~Has(userId) THEN "message:created"
                     ELSE IF conversations[userId].reminderCount > 0
                          THEN "message:updatedReminded"
                     ELSE "message:updated"
          /\ UNCHANGED tasks

(* part_004 replyAndRecord: the return of client.replyMessage. *)
ReplyAndRecord(e, ok) ==
  LET u == e.userId IN
  /\ variant = "p4"
  /\ e \in tasks /\ e.kind = "reply"
  /\ IF ok /\ Has(u)
     THEN /\ conversations' = [conversations EXCEPT ![u] =
               RecordReply(conversations[u], e.text)]
          /\ hist' = [hist EXCEPT ![u] = "Cleared"]
     ELSE UNCHANGED <<conversations, hist>>
  /\ tasks' = Finish(tasks, e)
  /\ last' = IF ok THEN "reply:sent" ELSE "reply:failed"
  /\ UNCHANGED <<debugLogs, variant, now, keys, messageLog, isCheckingUnreplied, tokens,
                 emitLog>>

----------------------------------------------------------------------------
(* The reminder sweep (part_004 lines 360-427, part_005 lines 373-440) *)

(* part_005 createSlackMessage reads conversations[id].securityToken and so
   throws a TypeError when the record is gone; part_004's does not touch the
   store. *)
createSlackMessageThrows(userId) == variant = "p5" /\ ~Has(userId)

(* part_005 createSlackMessage stores a token when the record has none. *)
createSlackMessage(convs, userId, k) ==
  IF variant = "p5" /\ convs[userId].exists /\ convs[userId].securityToken = NoToken
  THEN [convs EXCEPT ![userId].securityToken = generateSecurityToken(k)]
  ELSE convs

createSlackMessageTokens(convs, userId, k) ==
  IF variant = "p5" /\ convs[userId].exists /\ convs[userId].securityToken = NoToken
  THEN k + 1 ELSE k

(* A test that waits for more than the delay, not for the delay. *)
IsDueLater(c, n) ==
  /\ c.needsReply /\ c.userMessage.set
  /\ c.sourceType # "group" /\ c.sourceType # "room"
  /\ \/ n - c.userMessage.timestamp > threeHoursMs /\ c.lastReminderTime = 0
     \/ c.lastReminderTime # 0 /\ n - c.lastReminderTime > threeHoursMs

(* A test that is satisfied by the first reminder. *)
IsDueOnce(c, n) ==
  /\ c.needsReply /\ c.userMessage.set
  /\ c.sourceType # "group" /\ c.sourceType # "room"
  /\ n - c.userMessage.timestamp >= threeHoursMs /\ c.lastReminderTime = 0

(* A test that does not look at the record's source. *)
IsDueAnySource(c, n) ==
  /\ c.needsReply /\ c.userMessage.set
  /\ \/ n - c.userMessage.timestamp >= threeHoursMs /\ c.lastReminderTime = 0
     \/ c.lastReminderTime # 0 /\ n - c.lastReminderTime >= threeHoursMs

(* The test the sweep applies to one record at time n. *)
IsDue(c, n) ==
  LET timeSinceMessage == n - c.userMessage.timestamp
      timeSinceLastReminder == n - c.lastReminderTime
  IN
  /\ c.needsReply /\ c.userMessage.set
  /\ c.sourceType # "group" /\ c.sourceType # "room"
  /\ \/ timeSinceMessage >= threeHoursMs /\ c.lastReminderTime = 0
     \/ c.lastReminderTime # 0 /\ timeSinceLastReminder >= threeHoursMs

Entry(userId, c) == [userId |-> userId, reminderCount |-> c.reminderCount + 1]

(* The list `unreplied`, in the store's key order. *)
RECURSIVE Unreplied(_, _, _)
Unreplied(convs, ks, n) ==
  IF ks = <<>> THEN <<>>
  ELSE LET rest == Unreplied(convs, Tail(ks), n)
           id == Head(ks)
       IN IF IsDue(convs[id], n) THEN <<Entry(id, convs[id])>> \o rest ELSE rest

(* What the sweep hands to the notification call for one entry. *)
Emission(convs, userId) ==
  [userId |-> userId, needsReply |-> convs[userId].exists /\ convs[userId].needsReply]

(* A cron callback without the busy check. *)
SweepMayStartAlways == TRUE

(* The guard of the cron callback. *)
SweepMayStart == ~isCheckingUnreplied

(* A callback whose reset of the flag is its last statement, not a finally
   block: a throw of the body skips it. *)
FlagWithoutFinally(threw) == threw

(* The flag a cron callback leaves when its body has ended, by running to
   its end or by a throw: the finally block sets it to false. *)
FlagAfterSweep(threw) == FALSE

(* The cron callback, from the timer's firing to the first await. *)
SweepTrigger ==
  LET unreplied == Unreplied(conversations, keys, now)
      first == Head(unreplied).userId
  IN
  /\ variant \in {"p4", "p5"}
  /\ UNCHANGED <<debugLogs, variant, now, keys, messageLog, hist>>
  /\ IF ~SweepMayStart
     THEN /\ last' = "sweep:skipped"
          /\ UNCHANGED <<conversations, isCheckingUnreplied, tasks, tokens, emitLog>>
     ELSE IF unreplied = <<>>
     THEN /\ last' = "sweep:nothingDue"
          /\ UNCHANGED <<conversations, isCheckingUnreplied, tasks, tokens, emitLog>>
     ELSE /\ isCheckingUnreplied' = TRUE
          /\ conversations' = createSlackMessage(conversations, first, tokens)
          /\ tokens' = createSlackMessageTokens(conversations, first, tokens)
          /\ emitLog' = emitLog \o <<Emission(conversations, first)>>
          /\ tasks' = Suspend(tasks,
               [NewTask EXCEPT !.kind = "sweep", !.now = now,
                               !.unreplied = unreplied])
          /\ last' = "sweep:started"

(* A sweep that takes its reminder for an answer. *)
SweepUpdateClearingNeedsReply(convs, entry, n, ok) ==
  IF convs[entry.userId].exists
  THEN [convs EXCEPT ![entry.userId].lastReminderTime = n,
                     ![entry.userId].reminderCount = entry.reminderCount,
                     ![entry.userId].needsReply = FALSE]
  ELSE convs

(* The write the sweep makes for an entry once its notification call
   returned.  sendSlackInteractiveNotification catches a failed post, so the
   sweep sees no difference between a delivered and a failed notification. *)
SweepUpdate(convs, entry, n, ok) ==
  IF convs[entry.userId].exists
  THEN [convs EXCEPT ![entry.userId].lastReminderTime = n,
                     ![entry.userId].reminderCount = entry.reminderCount]
  ELSE convs

(* The sweep from the return of one notification call to the next await, or
   to its end. *)
SweepResume(s, ok) ==
  LET entry == Head(s.unreplied)
      rest == Tail(s.unreplied)
      updated == SweepUpdate(conversations, entry, s.now, ok)
      next == Head(rest).userId
  IN
  /\ variant \in {"p4", "p5"}
  /\ s \in tasks /\ s.kind = "sweep"
  /\ UNCHANGED <<debugLogs, variant, now, keys, messageLog, hist>>
  /\ IF rest = <<>>
     THEN /\ conversations' = updated
          /\ isCheckingUnreplied' = FlagAfterSweep(FALSE)
          /\ tasks' = Finish(tasks, s)
          /\ emitLog' = <<>>
          /\ last' = IF ok THEN "sweep:finished" ELSE "sweep:finishedAfterFailure"
          /\ UNCHANGED tokens
     ELSE IF createSlackMessageThrows(next)
     THEN /\ conversations' = updated
          /\ isCheckingUnreplied' = FlagAfterSweep(TRUE)
          /\ tasks' = Finish(tasks, s)
          /\ emitLog' = <<>>
          /\ last' = "sweep:aborted"
          /\ UNCHANGED tokens
     ELSE /\ conversations' = createSlackMessage(updated, next, tokens)
          /\ tokens' = createSlackMessageTokens(updated, next, tokens)
          /\ emitLog' = Append(emitLog, Emission(updated, next))
          /\ tasks' = Suspend(Finish(tasks, s), [s EXCEPT !.unreplied = rest])
          /\ last' = IF ok THEN "sweep:next" ELSE "sweep:nextAfterFailure"
          /\ UNCHANGED isCheckingUnreplied

----------------------------------------------------------------------------
(* The retention sweep (part_004 lines 432-447, part_005 lines 445-460) *)

(* A retention test that looks at the age only. *)
StaleWhateverNeedsReply(c, n) ==
  c.userMessage.set /\ n - c.userMessage.timestamp > oneDayMs

(* The retention test of one record at time n. *)
Stale(c, n) ==
  ~c.needsReply /\ c.userMessage.set /\ n - c.userMessage.timestamp > oneDayMs

Cleanup ==
  LET gone == {id \in AllIds : conversations[id].exists /\ Stale(conversations[id], now)}
  IN
  /\ variant \in {"p4", "p5"}
  /\ conversations' = [id \in AllIds |->
       IF id \in gone THEN NoConversation ELSE conversations[id]]
  /\ keys' = SelectSeq(keys, LAMBDA id : id \notin gone)
  /\ hist' = [id \in AllIds |-> IF id \in gone THEN "Deleted" ELSE hist[id]]
  /\ last' = IF gone = {} THEN "cleanup:kept" ELSE "cleanup:deleted"
  /\ UNCHANGED <<debugLogs, variant, now, messageLog, isCheckingUnreplied, tasks, tokens,
                 emitLog>>

----------------------------------------------------------------------------
(* part_005: the confirmation endpoints *)

(* A check that looks the record up and never compares the token. *)
TokenCheckWithoutComparison(userId, token) ==
  IF userId = NoUser \/ token = NoToken THEN "missing"
  ELSE IF ~Has(userId) THEN "notfound"
  ELSE "ok"

(* What both endpoints decide before they act: the checks of lines 267-279
   and 324-336. *)
TokenCheck(userId, token) ==
  IF userId = NoUser \/ token = NoToken THEN "missing"
  ELSE IF ~Has(userId) THEN "notfound"
  ELSE IF conversations[userId].securityToken # token THEN "mismatch"
  ELSE "ok"

(* GET /api/mark-as-replied-confirm: renders the confirmation page. *)
MarkAsRepliedConfirm(userId, token) ==
  /\ variant = "p5"
  /\ last' = "confirm:" \o TokenCheck(userId, token)
  /\ UNCHANGED <<debugLogs, variant, now, conversations, keys, messageLog,
                 isCheckingUnreplied, tasks, tokens, hist, emitLog>>

(* GET /api/mark-as-replied-web of part_005. *)
MarkAsRepliedWeb(userId, token) ==
  LET check == TokenCheck(userId, token) IN
  /\ variant = "p5"
  /\ IF check = "ok"
     THEN /\ conversations' = [conversations EXCEPT ![userId] = MarkReplied(@)]
          /\ hist' = [hist EXCEPT ![userId] = "Cleared"]
     ELSE UNCHANGED <<conversations, hist>>
  /\ last' = "web:" \o check
  /\ UNCHANGED <<debugLogs, variant, now, keys, messageLog, isCheckingUnreplied, tasks,
                 tokens, emitLog>>

(* GET /api/conversations answers with the store as it is; the body of the
   response for a store `convs` is the list of its records. *)
ConversationsListing(convs) ==
  {[userId |-> id, record |-> convs[id]] : id \in {x \in AllIds : convs[x].exists}}

GetConversations ==
  /\ variant = "p5"
  /\ last' = "list:conversations"
  /\ UNCHANGED <<debugLogs, variant, now, conversations, keys, messageLog,
                 isCheckingUnreplied, tasks, tokens, hist, emitLog>>

(* POST /api/create-test-conversation: a record whose message is already
   three hours (and five minutes) old.  The id is derived from the clock;
   one test conversation exists at a time. *)
CreateTestConversation ==
  /\ variant = "p5"
  /\ ~Has(TestUser)
  /\ conversations' = [conversations EXCEPT ![TestUser] =
       [exists |-> TRUE, userMessage |-> Message("test", now - threeHoursMs),
        botReply |-> NoReply, needsReply |-> TRUE, sourceType |-> "user",
        lastReminderTime |-> 0, reminderCount |-> 0,
        securityToken |-> generateSecurityToken(tokens)]]
  /\ keys' = Append1(keys, TestUser)
  /\ tokens' = tokens + 1
  /\ hist' = [hist EXCEPT ![TestUser] = "TestCreate"]
  /\ last' = "test:created"
  /\ UNCHANGED <<debugLogs, variant, now, messageLog, isCheckingUnreplied, tasks,
                 emitLog>>

(* POST /api/force-remind, up to the await of the notification. *)
ForceRemindBegin(userId) ==
  /\ variant = "p5"
  /\ UNCHANGED <<debugLogs, variant, now, keys, messageLog, isCheckingUnreplied,
                 hist, emitLog>>
  /\ IF userId = NoUser
     THEN /\ last' = "force:missing"
          /\ UNCHANGED <<conversations, tasks, tokens>>
     ELSE IF ~Has(userId)
     THEN /\ last' = "force:notfound"
          /\ UNCHANGED <<conversations, tasks, tokens>>
     ELSE IF ~conversations[userId].needsReply \/ ~conversations[userId].userMessage.set
     THEN /\ last' = "force:nothingPending"
          /\ UNCHANGED <<conversations, tasks, tokens>>
     ELSE /\ CanSuspend
          /\ conversations[userId].reminderCount < MaxReminders
          /\ conversations' = createSlackMessage(conversations, userId, tokens)
          /\ tokens' = createSlackMessageTokens(conversations, userId, tokens)
          /\ tasks' = Suspend(tasks,
               [NewTask EXCEPT !.kind = "force", !.userId = userId,
                  !.now = now,
                  !.reminderCount = conversations[userId].reminderCount + 1])
          /\ last' = "force:started"

(* POST /api/force-remind after the notification call returned.  The write
   is unguarded: it throws, and the handler answers 500, when the record was
   deleted meanwhile. *)
ForceRemindResume(f, ok) ==
  LET u == f.userId IN
  /\ variant = "p5"
  /\ f \in tasks /\ f.kind = "force"
  /\ IF Has(u)
     THEN /\ conversations' = [conversations EXCEPT
               ![u].lastReminderTime = f.now, ![u].reminderCount = f.reminderCount]
          /\ last' = IF ok THEN "force:sent" ELSE "force:sentAfterFailure"
     ELSE /\ last' = "force:error"
          /\ UNCHANGED conversations
  /\ tasks' = Finish(tasks, f)
  /\ UNCHANGED <<debugLogs, variant, now, keys, messageLog, isCheckingUnreplied, tokens,
                 hist, emitLog>>

----------------------------------------------------------------------------
(* part_004: the manual operations *)

(* GET /api/mark-as-replied-web of part_004 (no token) and
   POST /api/mark-as-replied: the same check and the same three writes. *)
MarkAsReplied(userId, endpoint) ==
  /\ variant = "p4"
  /\ IF userId = NoUser
     THEN /\ last' = endpoint \o ":missing"
          /\ UNCHANGED <<conversations, hist>>
     ELSE IF ~Has(userId)
     THEN /\ last' = endpoint \o ":notfound"
          /\ UNCHANGED <<conversations, hist>>
     ELSE /\ conversations' = [conversations EXCEPT ![userId] = MarkReplied(@)]
          /\ hist' = [hist EXCEPT ![userId] = "Cleared"]
          /\ last' = endpoint \o ":ok"
  /\ UNCHANGED <<debugLogs, variant, now, keys, messageLog, isCheckingUnreplied, tasks,
                 tokens, emitLog>>

(* POST /api/send-reply, up to the await of client.pushMessage. *)
SendReplyBegin(userId) ==
  /\ variant = "p4"
  /\ IF userId = NoUser
     THEN /\ last' = "send:missing"
          /\ UNCHANGED tasks
     ELSE /\ CanSuspend
          /\ tasks' = Suspend(tasks,
               [NewTask EXCEPT !.kind = "send", !.userId = userId,
                               !.text = "push"])
          /\ last' = "send:started"
  /\ UNCHANGED <<debugLogs, variant, now, conversations, keys, messageLog,
                 isCheckingUnreplied, tokens, hist, emitLog>>

(* A send-reply that records the reply whatever the push did. *)
SendReplyRecordIgnoringOutcome(convs, userId, text, ok) ==
  IF convs[userId].exists
  THEN [convs EXCEPT ![userId] = RecordReply(@, text)]
  ELSE convs

(* The write POST /api/send-reply makes according to the outcome of the push. *)
SendReplyRecord(convs, userId, text, ok) ==
  IF ok /\ convs[userId].exists
  THEN [convs EXCEPT ![userId] = RecordReply(@, text)]
  ELSE convs

(* POST /api/send-reply after client.pushMessage returned or threw. *)
SendReplyReturn(s, ok) ==
  LET u == s.userId IN
  /\ variant = "p4"
  /\ s \in tasks /\ s.kind = "send"
  /\ conversations' = SendReplyRecord(conversations, u, s.text, ok)
  /\ hist' = IF ok /\ Has(u) THEN [hist EXCEPT ![u] = "Cleared"] ELSE hist
  /\ tasks' = Finish(tasks, s)
  /\ last' = IF ok THEN "send:sent" ELSE "send:failed"
  /\ UNCHANGED <<debugLogs, variant, now, keys, messageLog, isCheckingUnreplied, tokens,
                 emitLog>>

----------------------------------------------------------------------------
(* app.js: the message log *)

(* A test that is content with the entry's existence. *)
markAsRepliedSucceedsForAnyEntry(log, userId) == log[userId].exists

(* markAsReplied (lines 101-110): whether it returns true, and the log it
   leaves. *)
markAsRepliedSucceeds(log, userId) == log[userId].exists /\ log[userId].needsReply

markAsReplied(log, userId, n) ==
  IF markAsRepliedSucceeds(log, userId)
  THEN [log EXCEPT ![userId].needsReply = FALSE, ![userId].repliedAt = n]
  ELSE log

(* What autoReplyPatterns (lines 40-49) makes of a text: the first pattern
   has a reply, the second only marks the message replied. *)
autoReplyPatterns(text) ==
  IF text = "thanks" THEN "reply"
  ELSE IF text = "ok" THEN "mark"
  ELSE "none"

(* The RESET command's loop over the log. *)
ResetLog(log) ==
  [id \in AllIds |->
     IF log[id].exists THEN [log[id] EXCEPT !.needsReply = FALSE] ELSE log[id]]

(* The entry handleEvent stores for a user's message: a new object, so a
   repliedAt of the entry it replaces is gone. *)
LogEntry(text, ts, sourceType) ==
  [exists |-> TRUE, messageText |-> text, timestamp |-> ts,
   sourceType |-> sourceType, needsReply |-> TRUE, repliedAt |-> 0]

(* handleEvent (lines 203-361) from the return of the profile lookup to its
   next await that has a continuation: the client.pushMessage of
   sendAutoReply.  The replies to commands and the notification of a new
   message are awaited last and nothing follows them. *)
handleEvent(userId, messageText, sourceType, isFromUser, timestamp) ==
  LET entry == LogEntry(messageText, timestamp, sourceType)
      stored == [messageLog EXCEPT ![userId] = entry]
      pattern == autoReplyPatterns(messageText)
  IN
  /\ variant = "app"
  /\ timestamp \in 1..now
  /\ UNCHANGED <<debugLogs, variant, now, conversations, isCheckingUnreplied, tokens, emitLog>>
  /\ IF ~isFromUser
     THEN /\ last' = "event:notFromUser"
          /\ UNCHANGED <<messageLog, keys, tasks, hist>>
     ELSE IF messageText = "reset"
     THEN /\ messageLog' = ResetLog(messageLog)
          /\ hist' = [id \in AllIds |-> IF HasLog(id) THEN "Cleared" ELSE hist[id]]
          /\ last' = "reset:cleared"
          /\ UNCHANGED <<keys, tasks>>
     ELSE IF messageText = "mark"
     THEN /\ messageLog' = markAsReplied(messageLog, userId, now)
          /\ hist' = IF markAsRepliedSucceeds(messageLog, userId)
                     THEN [hist EXCEPT ![userId] = "Cleared"] ELSE hist
          /\ last' = IF markAsRepliedSucceeds(messageLog, userId)
                     THEN "mark:cleared" ELSE "mark:unknown"
          /\ UNCHANGED <<keys, tasks>>
     ELSE IF messageText \in {"status", "debuglog"}
     THEN /\ last' = "event:reported"
          /\ UNCHANGED <<messageLog, keys, tasks, hist>>
     ELSE /\ keys' = Append1(keys, userId)
          /\ CASE pattern = "reply" ->
                    /\ CanSuspend
                    /\ messageLog' = stored
                    /\ hist' = [hist EXCEPT ![userId] = "UserMessage"]
                    /\ tasks' = Suspend(tasks,
                         [NewTask EXCEPT !.kind = "auto", !.userId = userId])
                    /\ last' = "message:autoReply"
               [] pattern = "mark" ->
                    /\ messageLog' = markAsReplied(stored, userId, now)
                    /\ hist' = [hist EXCEPT ![userId] = "Cleared"]
                    /\ last' = "message:autoMarked"
                    /\ UNCHANGED tasks
               [] OTHER ->
                    /\ messageLog' = stored
                    /\ hist' = [hist EXCEPT ![userId] = "UserMessage"]
                    /\ last' = "message:recorded"
                    /\ UNCHANGED tasks

(* sendAutoReply (lines 136-154) after client.pushMessage returned or threw.
   After a delivery it marks the entry replied; the notification that
   follows reads the entry's displayName, and the TypeError of a deleted
   entry is caught like a failed push. *)
sendAutoReply(a, ok) ==
  LET u == a.userId IN
  /\ variant = "app"
  /\ a \in tasks /\ a.kind = "auto"
  /\ IF ok
     THEN /\ messageLog' = markAsReplied(messageLog, u, now)
          /\ hist' = IF markAsRepliedSucceeds(messageLog, u)
                     THEN [hist EXCEPT ![u] = "Cleared"] ELSE hist
          /\ last' = IF HasLog(u) THEN "auto:sent" ELSE "auto:sentThenThrew"
     ELSE /\ last' = "auto:failed"
          /\ UNCHANGED <<messageLog, hist>>
  /\ tasks' = Finish(tasks, a)
  /\ UNCHANGED <<debugLogs, variant, now, conversations, keys, isCheckingUnreplied, tokens,
                 emitLog>>

(* POST /api/mark-as-replied (lines 398-413) and GET /api/mark-as-replied
   (lines 613-629). *)
MarkAsRepliedApp(userId, endpoint) ==
  /\ variant = "app"
  /\ IF userId = NoUser
     THEN /\ last' = endpoint \o ":missing"
          /\ UNCHANGED <<messageLog, hist>>
     ELSE /\ messageLog' = markAsReplied(messageLog, userId, now)
          /\ hist' = IF markAsRepliedSucceeds(messageLog, userId)
                     THEN [hist EXCEPT ![userId] = "Cleared"] ELSE hist
          /\ last' = IF markAsRepliedSucceeds(messageLog, userId)
                     THEN endpoint \o ":ok" ELSE endpoint \o ":notfound"
  /\ UNCHANGED <<debugLogs, variant, now, conversations, keys, isCheckingUnreplied, tasks,
                 tokens, emitLog>>

(* POST /api/send-reply of app.js (lines 456-485), up to client.pushMessage. *)
SendReplyBeginApp(userId) ==
  /\ variant = "app"
  /\ IF userId = NoUser
     THEN /\ last' = "send:missing"
          /\ UNCHANGED tasks
     ELSE /\ CanSuspend
          /\ tasks' = Suspend(tasks, [NewTask EXCEPT !.kind = "send", !.userId = userId])
          /\ last' = "send:started"
  /\ UNCHANGED <<debugLogs, variant, now, conversations, keys, messageLog,
                 isCheckingUnreplied, tokens, hist, emitLog>>

(* POST /api/send-reply of app.js after client.pushMessage returned or threw. *)
SendReplyReturnApp(s, ok) ==
  LET u == s.userId IN
  /\ variant = "app"
  /\ s \in tasks /\ s.kind = "send"
  /\ IF ok
     THEN /\ messageLog' = markAsReplied(messageLog, u, now)
          /\ hist' = IF markAsRepliedSucceeds(messageLog, u)
                     THEN [hist EXCEPT ![u] = "Cleared"] ELSE hist
          /\ last' = "send:sent"
     ELSE /\ last' = "send:failed"
          /\ UNCHANGED <<messageLog, hist>>
  /\ tasks' = Finish(tasks, s)
  /\ UNCHANGED <<debugLogs, variant, now, conversations, keys, isCheckingUnreplied, tokens,
                 emitLog>>

(* The entries the batch reminder of app.js lists at time n. *)
RECURSIVE unrepliedUsers(_, _, _)
unrepliedUsers(log, ks, n) ==
  IF ks = <<>> THEN <<>>
  ELSE LET rest == unrepliedUsers(log, Tail(ks), n)
           id == Head(ks)
       IN IF log[id].needsReply /\ n - log[id].timestamp >= oneMinuteInMs
          THEN <<[userId |-> id, needsReply |-> TRUE]>> \o rest
          ELSE rest

(* The one-minute cron callback of app.js (lines 488-560) up to the await of
   its single notification; with nothing to report it runs to its end. *)
SweepTriggerApp ==
  LET unreplied == unrepliedUsers(messageLog, keys, now) IN
  /\ variant = "app"
  /\ IF ~SweepMayStart
     THEN /\ last' = "sweep:skipped"
          /\ UNCHANGED <<isCheckingUnreplied, tasks, emitLog>>
     ELSE IF unreplied = <<>>
     THEN /\ last' = "sweep:nothingDue"
          /\ UNCHANGED <<isCheckingUnreplied, tasks, emitLog>>
     ELSE /\ isCheckingUnreplied' = TRUE
          /\ emitLog' = emitLog \o unreplied
          /\ tasks' = Suspend(tasks, [NewTask EXCEPT !.kind = "sweep"])
          /\ last' = "sweep:started"
  /\ UNCHANGED <<debugLogs, variant, now, conversations, keys, messageLog, tokens, hist>>

(* The cron callback of app.js after its notification: the finally block. *)
SweepResumeApp(s, ok) ==
  /\ variant = "app"
  /\ s \in tasks /\ s.kind = "sweep"
  /\ isCheckingUnreplied' = FlagAfterSweep(FALSE)
  /\ tasks' = Finish(tasks, s)
  /\ emitLog' = <<>>
  /\ last' = IF ok THEN "sweep:finished" ELSE "sweep:finishedAfterFailure"
  /\ UNCHANGED <<debugLogs, variant, now, conversations, keys, messageLog, tokens, hist>>

(* The retention sweep of app.js (lines 563-583). *)
StaleApp(m, n) ==
  ~m.needsReply /\ m.repliedAt # 0 /\ n - m.repliedAt > oneDayInMs

CleanupApp ==
  LET gone == {id \in AllIds : messageLog[id].exists /\ StaleApp(messageLog[id], now)}
  IN
  /\ variant = "app"
  /\ messageLog' = [id \in AllIds |-> IF id \in gone THEN NoLogEntry ELSE messageLog[id]]
  /\ keys' = SelectSeq(keys, LAMBDA id : id \notin gone)
  /\ hist' = [id \in AllIds |-> IF id \in gone THEN "Deleted" ELSE hist[id]]
  /\ last' = IF gone = {} THEN "cleanup:kept" ELSE "cleanup:deleted"
  /\ UNCHANGED <<debugLogs, variant, now, conversations, isCheckingUnreplied, tasks, tokens,
                 emitLog>>

----------------------------------------------------------------------------
(* Time *)

Tick ==
  /\ now < MaxTime
  /\ now' = now + 1
  /\ last' = "tick"
  /\ UNCHANGED <<debugLogs, variant, conversations, keys, messageLog, isCheckingUnreplied,
                 tasks, tokens, hist, emitLog>>

----------------------------------------------------------------------------
(* Specifications *)

InitCommon ==
  /\ now = 1
  /\ conversations = [id \in AllIds |-> NoConversation]
  /\ keys = <<>>
  /\ messageLog = [id \in AllIds |-> NoLogEntry]
  /\ isCheckingUnreplied = FALSE
  /\ tasks = {}
  /\ tokens = 0
  /\ hist = [id \in AllIds |-> "none"]
  /\ emitLog = <<>>
  /\ debugLogs = <<>>
  /\ last = "start"

Init == variant \in {"p5", "p4", "app"} /\ InitCommon

(* The requests and commands come from or name this user; the other one
   only writes plain messages in a one-to-one chat.  Only part_005 can
   create the test conversation. *)
Operator == "U1"
Targets == IF variant = "p5" THEN {Operator, TestUser} ELSE {Operator}

(* The token a confirmation request presents: none, or one the server has
   issued (to this conversation or to another one, now or earlier). *)
Presented == {NoToken} \cup 1..tokens

EventUsers == IF variant = "p5" THEN {Operator} ELSE Users
EventTexts ==
  IF variant = "p5" THEN {"hello", "status"}
  ELSE IF variant = "p4" THEN {"hello", "status", "reset", "mark"}
  ELSE {"hello", "thanks", "ok", "status", "reset", "mark"}
EventCommands == IF variant = "app" THEN {"status", "reset", "mark"} ELSE Commands

(* The webhook events offered to the event handler.  The platform stamps an
   event when it happens and delivers it at once.  The source of a command
   is not varied in app.js, which does not read it.  A message that part_005
   would record is offered while fewer than MaxTokens tokens were issued. *)
Events ==
  {i \in [userId : EventUsers, text : EventTexts, sourceType : {"user", "group"},
          isFromUser : BOOLEAN, timestamp : {now}] :
     LET dropped == \/ ~i.isFromUser
                    \/ /\ variant # "app"
                       /\ i.sourceType = "group" /\ i.text \notin GroupCommands
         command == i.text \in EventCommands
     IN /\ (dropped \/ command) => i.userId = Operator
        /\ i.userId # Operator => i.text = "hello" /\ i.sourceType = "user"
        /\ (variant = "app" /\ (dropped \/ command)) => i.sourceType = "user"
        /\ (variant = "p5" /\ ~dropped /\ ~command) => tokens < MaxTokens}

Next ==
  \/ \E i \in Events :
        HandleLineEvent(i.userId, i.text, i.sourceType, i.isFromUser, i.timestamp)
  \/ \E e \in tasks, ok \in BOOLEAN : ReplyAndRecord(e, ok)
  \/ SweepTrigger
  \/ \E s \in tasks, ok \in BOOLEAN : SweepResume(s, ok)
  \/ Cleanup
  \/ \E u \in Targets, k \in Presented : MarkAsRepliedConfirm(u, k)
  \/ \E u \in Targets, k \in Presented : MarkAsRepliedWeb(u, k)
  \/ tokens < MaxTokens /\ CreateTestConversation
  \/ \E u \in Targets : ForceRemindBegin(u)
  \/ \E f \in tasks, ok \in BOOLEAN : ForceRemindResume(f, ok)
  \/ \E u \in Targets, p \in {"web", "api"} : MarkAsReplied(u, p)
  \/ \E u \in Targets : SendReplyBegin(u)
  \/ \E s \in tasks, ok \in BOOLEAN : SendReplyReturn(s, ok)
  \/ \E i \in Events :
        handleEvent(i.userId, i.text, i.sourceType, i.isFromUser, i.timestamp)
  \/ \E a \in tasks, ok \in BOOLEAN : sendAutoReply(a, ok)
  \/ \E u \in Targets, p \in {"web", "api"} : MarkAsRepliedApp(u, p)
  \/ \E u \in Targets : SendReplyBeginApp(u)
  \/ \E s \in tasks, ok \in BOOLEAN : SendReplyReturnApp(s, ok)
  \/ SweepTriggerApp
  \/ \E s \in tasks, ok \in BOOLEAN : SweepResumeApp(s, ok)
  \/ CleanupApp
  \/ Tick

Spec == Init /\ [][Next]_vars

(* part_005 with three conversations: every user writes plain messages in a
   one-to-one chat, the test conversation is created, the operator follows
   the link of a notification (which carries the record's token), anyone
   asks for the list of conversations, the two cron callbacks fire and time
   passes. *)
InitSweep == variant = "p5" /\ InitCommon

NextSweep ==
  \/ \E u \in Users :
        tokens < MaxSweepTokens /\ HandleLineEvent(u, "hello", "user", TRUE, now)
  \/ tokens < MaxSweepTokens /\ CreateTestConversation
  \/ \E u \in AllIds :
        Has(u) /\ MarkAsRepliedWeb(u, conversations[u].securityToken)
  \/ GetConversations
  \/ SweepTrigger
  \/ \E s \in tasks, ok \in BOOLEAN : SweepResume(s, ok)
  \/ Cleanup
  \/ Tick

SpecSweep == InitSweep /\ [][NextSweep]_vars

(* The same operations, and their counterparts of app.js, with the timer of
   the reminder sweep firing again and again (node-cron) and every
   notification call returning. *)
InitFair == variant \in {"p5", "app"} /\ InitCommon

NextFair ==
  \/ NextSweep
  \/ \E u \in Users : handleEvent(u, "hello", "user", TRUE, now)
  \/ \E u \in Users : MarkAsRepliedApp(u, "web")
  \/ SweepTriggerApp
  \/ \E s \in tasks, ok \in BOOLEAN : SweepResumeApp(s, ok)
  \/ CleanupApp

SpecFair ==
  /\ InitFair /\ [][NextFair]_vars
  /\ WF_vars(SweepTrigger)
  /\ WF_vars(\E s \in tasks, ok \in BOOLEAN : SweepResume(s, ok))
  /\ WF_vars(SweepTriggerApp)
  /\ WF_vars(\E s \in tasks, ok \in BOOLEAN : SweepResumeApp(s, ok))

(* POST /webhook (part_004 lines 120-149, part_005 lines 135-164, app.js
   lines 157-200).  The raw body is one of: a JSON object with an events
   array, a JSON object without one, bytes that are no JSON.  The digest is
   a function of the body and the channel secret; a request carries no
   signature, or the digest of some body. *)
Bodies == {"events", "noEvents", "notJson"}
NoSignature == ""
Hmac(body) == "hmac:" \o body
Signatures == {NoSignature} \cup {Hmac(b) : b \in Bodies}

(* The route handler to its end.  With a matching signature JSON.parse of
   bytes that are no JSON throws in the handler and the framework answers
   500.  An accepted request is answered 200 and its handlers start; each
   one writes only after its profile lookup (HandleLineEvent, handleEvent). *)
PostWebhook(signature, body) ==
  /\ last' = IF signature = NoSignature THEN "webhook:400"
             ELSE IF Hmac(body) # signature THEN "webhook:400"
             ELSE IF body = "notJson" THEN "webhook:500"
             ELSE IF body = "noEvents" THEN "webhook:400"
             ELSE "webhook:200"
  /\ UNCHANGED <<debugLogs, variant, now, conversations, keys, messageLog,
                 isCheckingUnreplied, tasks, tokens, hist, emitLog>>

(* logDebug (app.js lines 52-62, part_005 lines 55-62), with the capacity
   of 100 entries scaled down. *)
maxDebugLogs == 3

(* A log that grows at its end. *)
logDebugAtEnd(logs, logEntry) ==
  LET pushed == Append(logs, logEntry)
  IN IF Len(pushed) > maxDebugLogs THEN Tail(pushed) ELSE pushed

(* logDebug: unshift puts the entry in front, pop drops the last one when
   the length has exceeded the capacity. *)
logDebug(logs, logEntry) ==
  LET unshifted == <<logEntry>> \o logs
  IN IF Len(unshifted) > maxDebugLogs
     THEN SubSeq(unshifted, 1, Len(unshifted) - 1)
     ELSE unshifted

(* One call of logDebug; the entry carries the time of the call. *)
LogDebug(message) ==
  /\ debugLogs' = logDebug(debugLogs, [timestamp |-> now, message |-> message])
  /\ last' = "log:added"
  /\ UNCHANGED <<variant, now, conversations, keys, messageLog,
                 isCheckingUnreplied, tasks, tokens, hist, emitLog>>

(* The debug log alone: calls of logDebug as time passes. *)
InitLog == variant \in {"p5", "app"} /\ InitCommon

NextLog ==
  \/ \E message \in {"a", "b"} : LogDebug(message)
  \/ Tick

SpecLog == InitLog /\ [][NextLog]_vars

(* One conversation whose events reach the handlers in any order: the
   webhook starts the handlers of a batch together (Promise.all) and each
   one awaits its profile lookup, so the handler that writes now may carry
   an event stamped earlier than one already written.  The texts are a plain
   message, the commands, and a command in another letter case. *)
BatchTexts == {"hello", "Status", "status", "debuglog", "reset", "mark"}

InitEvents == variant \in {"p5", "p4", "app"} /\ InitCommon

NextEvents ==
  \/ \E x \in BatchTexts, st \in {"user", "group"}, ts \in 1..now :
        /\ variant = "p5" => tokens < MaxSweepTokens
        /\ HandleLineEvent(Operator, x, st, TRUE, ts)
  \/ \E e \in tasks, ok \in BOOLEAN : ReplyAndRecord(e, ok)
  \/ \E x \in BatchTexts, ts \in 1..now : handleEvent(Operator, x, "user", TRUE, ts)
  \/ \E signature \in Signatures, body \in Bodies : PostWebhook(signature, body)
  \/ Tick

SpecEvents == InitEvents /\ [][NextEvents]_vars

(* A diagnosis that knows the first reminder only. *)
DebugShouldSendFirstOnly(c, n) ==
  IF c.needsReply /\ c.userMessage.set
       /\ c.sourceType # "group" /\ c.sourceType # "room"
  THEN IF n - c.userMessage.timestamp >= threeHoursMs /\ c.lastReminderTime = 0
       THEN "YES" ELSE "NO"
  ELSE "absent"

(* GET /api/debug-reminder of part_005 (lines 479-550): what the entry of
   one record in unrepliedMessages says in shouldSendReminder; a record
   that is answered, or of a group or room, has no entry. *)
DebugShouldSend(c, n) ==
  LET timeSinceMessage == n - c.userMessage.timestamp
      timeSinceLastReminder == n - c.lastReminderTime
  IN IF c.needsReply /\ c.userMessage.set
          /\ c.sourceType # "group" /\ c.sourceType # "room"
     THEN IF \/ timeSinceMessage >= threeHoursMs /\ c.lastReminderTime = 0
             \/ c.lastReminderTime # 0 /\ timeSinceLastReminder >= threeHoursMs
          THEN "YES" ELSE "NO"
     ELSE "absent"

(* The user ids the response reports with shouldSendReminder YES, in the
   store's key order. *)
DebugReminderYes(convs, ks, n) ==
  SelectSeq(ks, LAMBDA id : DebugShouldSend(convs[id], n) = "YES")

(* The request: it reads the store and answers. *)
GetDebugReminder ==
  /\ variant = "p5"
  /\ last' = "debug:reminder"
  /\ UNCHANGED <<debugLogs, variant, now, conversations, keys, messageLog,
                 isCheckingUnreplied, tasks, tokens, hist, emitLog>>

(* The selection of the sweep as a function of the store: the two users'
   records are drawn from every combination of source, needsReply, message
   time and last reminder time, the records of a group and of a room
   included, and the cron callback runs over them as time passes. *)
SelectRecords ==
  {NoConversation} \cup
  {[exists |-> TRUE, userMessage |-> Message("hello", ts), botReply |-> NoReply,
    needsReply |-> nr, sourceType |-> st, lastReminderTime |-> lrt,
    reminderCount |-> IF lrt = 0 THEN 0 ELSE 1, securityToken |-> NoToken] :
     ts \in {0, 1}, nr \in BOOLEAN, st \in {"user", "group", "room"},
     lrt \in {0, 1}}

InitSelect ==
  /\ variant \in {"p4", "p5"}
  /\ now = 1
  /\ conversations \in [AllIds -> SelectRecords]
  /\ ~conversations[TestUser].exists
  /\ keys = SelectSeq(<<"U1", "U2">>, LAMBDA id : conversations[id].exists)
  /\ messageLog = [id \in AllIds |-> NoLogEntry]
  /\ isCheckingUnreplied = FALSE
  /\ tasks = {}
  /\ tokens = 0
  /\ hist = [id \in AllIds |-> "none"]
  /\ emitLog = <<>>
  /\ debugLogs = <<>>
  /\ last = "start"

NextSelect ==
  \/ SweepTrigger
  \/ GetDebugReminder
  \/ \E s \in tasks, ok \in BOOLEAN : SweepResume(s, ok)
  \/ Tick

SpecSelect == InitSelect /\ [][NextSelect]_vars

----------------------------------------------------------------------------
(* Properties *)

Sweeps == {t \in tasks : t.kind = "sweep"}
Recorded == {"message:created", "message:updated", "message:updatedReminded"}

(* C1: in part_004 and part_005 a conversation a user writes to has
   needsReply = TRUE exactly when the last operation that changed its reply
   state was the recording of a user message, and not a delivered reply, a
   mark-replied command or request, RESET or a successful confirmation;
   failed sends and failed confirmations do not count. *)
C1_NeedsReplyIffLastWasUserMessage ==
  variant \in {"p4", "p5"} =>
    \A id \in Users :
      Has(id) => (conversations[id].needsReply <=> hist[id] = "UserMessage")

(* A push that failed for a conversation that was answered once and has
   been written to again. *)
C1_FailedSendAfterNewMessage ==
  /\ variant = "p4" /\ last = "send:failed"
  /\ Has(Operator) /\ conversations[Operator].botReply.set
  /\ conversations[Operator].needsReply /\ hist[Operator] = "UserMessage"

(* C2: at most one reminder sweep is in progress at any time, and one is in
   progress exactly while isCheckingUnreplied is set. *)
C2_AtMostOneSweep ==
  /\ Cardinality(Sweeps) <= 1
  /\ isCheckingUnreplied <=> Sweeps # {}

(* The timer fired while a sweep was awaiting a notification. *)
C2_TriggerWhileSweeping ==
  /\ variant = "p5" /\ last = "sweep:skipped"
  /\ Cardinality(Sweeps) = 1

(* C3, as stated: within one sweep no record is reminded of twice, and every
   record a reminder is emitted for has needsReply = TRUE at that moment. *)
C3_RemindersOnlyForPending ==
  \A i \in 1..Len(emitLog) :
    /\ emitLog[i].needsReply
    /\ \A j \in 1..Len(emitLog) : i # j => emitLog[i].userId # emitLog[j].userId

(* C4: every record with needsReply = TRUE holds the user's message. *)
C4_NeedsReplyHasMessage ==
  \A id \in AllIds :
    /\ conversations[id].needsReply =>
         conversations[id].exists /\ conversations[id].userMessage.set
    /\ messageLog[id].needsReply =>
         messageLog[id].exists /\ messageLog[id].messageText # ""

(* The test conversation, just created. *)
C4_TestConversationCreated ==
  /\ variant = "p5" /\ last = "test:created"
  /\ conversations[TestUser].needsReply /\ conversations[TestUser].userMessage.set

(* C5, as stated: a record with reminderCount > 0 has lastReminderTime set
   and needsReply = TRUE. *)
C5_RemindedImpliesPending ==
  \A id \in AllIds :
    Has(id) /\ conversations[id].reminderCount > 0 =>
      conversations[id].lastReminderTime # 0 /\ conversations[id].needsReply

(* C6: the step that records a user message leaves that record with
   reminderCount = 0 and lastReminderTime = 0. *)
C6_UserMessageResetsReminders ==
  [][last' \in Recorded =>
       \A i \in Events :
         HandleLineEvent(i.userId, i.text, i.sourceType, i.isFromUser, i.timestamp)
         => /\ conversations'[i.userId].reminderCount = 0
            /\ conversations'[i.userId].lastReminderTime = 0]_vars

(* A message recorded over a record that had been reminded of. *)
C6_MessageAfterReminder ==
  /\ variant = "p5" /\ last = "message:updatedReminded"
  /\ conversations[Operator].reminderCount = 0
  /\ conversations[Operator].lastReminderTime = 0

(* C7: GET /api/mark-as-replied-web marks a record replied only when the
   record exists and the presented token is the record's; otherwise it, and
   in every case the confirmation page, leaves all records as they are, and
   both report the error. *)
C7_ConfirmationNeedsMatchingToken ==
  [][variant = "p5" =>
     \A u \in Targets, k \in Presented :
       LET valid == /\ k # NoToken
                    /\ conversations[u].exists
                    /\ conversations[u].securityToken = k
       IN /\ MarkAsRepliedWeb(u, k) =>
               IF valid
               THEN last' = "web:ok" /\ ~conversations'[u].needsReply
               ELSE /\ conversations' = conversations
                    /\ last' \in {"web:missing", "web:notfound", "web:mismatch"}
          /\ MarkAsRepliedConfirm(u, k) =>
               /\ conversations' = conversations
               /\ ~valid => last' \in {"confirm:missing", "confirm:notfound",
                                       "confirm:mismatch"}]_vars

(* A confirmation with a wrong token for a record that awaits a reply. *)
C7_WrongTokenRejected ==
  /\ variant = "p5" /\ last = "web:mismatch"
  /\ ~Has(TestUser)
  /\ Has(Operator) /\ conversations[Operator].needsReply

(* C8: recording a user message gives the record a token that was never
   issued before, no record holds a token that was not issued, and a
   confirmation presenting a token older than the record's fails with a
   mismatch and leaves all records as they are. *)
C8_StaleTokenFails ==
  [][variant = "p5" =>
       /\ last' \in Recorded =>
            \A i \in Events :
              HandleLineEvent(i.userId, i.text, i.sourceType, i.isFromUser, i.timestamp)
              => /\ conversations'[i.userId].securityToken > tokens
                 /\ conversations[i.userId].securityToken <= tokens
       /\ \A u \in Targets, k \in Presented :
            (/\ Has(u) /\ k # NoToken /\ k < conversations[u].securityToken
             /\ MarkAsRepliedWeb(u, k))
            => last' = "web:mismatch" /\ conversations' = conversations]_vars

(* Only one conversation ever existed, it holds the second token issued, and
   a confirmation was just rejected for a mismatch: it presented the first
   token, the one the conversation held before its second message. *)
C8_FirstTokenPresentedAfterSecondMessage ==
  /\ variant = "p5" /\ last = "web:mismatch"
  /\ hist[TestUser] = "none" /\ tokens = 2
  /\ Has(Operator) /\ conversations[Operator].securityToken = 2
  /\ conversations[Operator].needsReply

(* C9: a send that fails (POST /api/send-reply, replyAndRecord, sendAutoReply)
   leaves every record as it is, and with it the list the next sweep
   selects. *)
C9_FailedSendChangesNothing ==
  [][tasks' # tasks =>
     \A t \in tasks :
       /\ SendReplyReturn(t, FALSE) =>
            /\ conversations' = conversations
            /\ Unreplied(conversations', keys', now') = Unreplied(conversations, keys, now)
       /\ ReplyAndRecord(t, FALSE) => conversations' = conversations
       /\ sendAutoReply(t, FALSE) => messageLog' = messageLog
       /\ SendReplyReturnApp(t, FALSE) => messageLog' = messageLog]_vars

(* A push that failed for a record that has been reminded of. *)
C9_FailedSendKeepsReminders ==
  /\ variant = "p4" /\ last = "send:failed"
  /\ Has(Operator) /\ conversations[Operator].needsReply
  /\ conversations[Operator].reminderCount > 0
  /\ conversations[Operator].lastReminderTime # 0

(* C10, as stated: when the notification of a reminder fails, the sweep
   leaves the record's lastReminderTime and reminderCount as they were. *)
C10_FailedReminderKeepsBookkeeping ==
  [][\A s \in Sweeps :
       SweepResume(s, FALSE) =>
         LET u == Head(s.unreplied).userId IN
         /\ conversations'[u].lastReminderTime = conversations[u].lastReminderTime
         /\ conversations'[u].reminderCount = conversations[u].reminderCount]_vars

(* C11, as stated: the sweep attempts the notification of every record of
   its snapshot, whatever happens to the other records while it is awaiting:
   when a sweep ends, no record of its snapshot that is still in the store
   and still awaits a reply has been left without an attempt. *)
C11_SweepAttemptsWholeSnapshot ==
  [][tasks' # tasks =>
       \A s \in Sweeps, ok \in BOOLEAN :
         (SweepResume(s, ok) /\ ~isCheckingUnreplied')
         => \A i \in 2..Len(s.unreplied) :
              LET u == s.unreplied[i].userId
              IN ~(Has(u) /\ conversations[u].needsReply)]_vars

(* C12: at every time n the sweep would select exactly the eligible records
   (awaiting a reply, holding a message, not of a group or room) for which
   either no reminder was sent and the message is at least the delay old, or
   a reminder was sent at least the interval ago; both are threeHoursMs. *)
C12_DueExactlyAsSpecified ==
  variant \in {"p4", "p5"} =>
    \A n \in now..MaxTime :
      LET eligible(c) == /\ c.exists /\ c.needsReply /\ c.userMessage.set
                         /\ c.sourceType \notin {"group", "room"}
          due(c) == IF c.lastReminderTime = 0
                    THEN n - c.userMessage.timestamp >= threeHoursMs
                    ELSE n - c.lastReminderTime >= threeHoursMs
          selected == Unreplied(conversations, keys, n)
      IN {selected[i].userId : i \in 1..Len(selected)}
           = {id \in AllIds : eligible(conversations[id]) /\ due(conversations[id])}

(* A sweep has just started that selected a record reminded of exactly one
   interval ago and left out a record whose message is younger than the
   delay. *)
C12_SweepSelectedSomeNotAll ==
  /\ variant = "p4" /\ last = "sweep:started"
  /\ \E s \in Sweeps :
       /\ Len(s.unreplied) = 1 /\ s.unreplied[1].reminderCount = 2
       /\ \E id \in Users :
            /\ id # s.unreplied[1].userId
            /\ Has(id) /\ conversations[id].needsReply
            /\ conversations[id].userMessage.timestamp = now

(* C13, as stated: when the notification of a record the sweep found due
   has been delivered, the sweep's write raises the record's reminderCount
   by exactly 1 and sets its lastReminderTime to the sweep's now, and it
   changes the reminder fields of no other record. *)
C13_SweepCountsOneReminder ==
  [][(variant = "p5" /\ tasks' # tasks) =>
       \A s \in Sweeps :
         SweepResume(s, TRUE) =>
           LET u == Head(s.unreplied).userId IN
           /\ Has(u) =>
                /\ conversations'[u].reminderCount = conversations[u].reminderCount + 1
                /\ conversations'[u].lastReminderTime = s.now
           /\ \A id \in AllIds \ {u} :
                /\ conversations'[id].reminderCount = conversations[id].reminderCount
                /\ conversations'[id].lastReminderTime = conversations[id].lastReminderTime]_vars

(* C14: the retention sweep leaves every record that awaits a reply in the
   store, unchanged, however old its message is (part_004, part_005 and the
   log of app.js). *)
C14_CleanupKeepsPending ==
  [][last' \in {"cleanup:kept", "cleanup:deleted"} =>
       /\ Cleanup =>
            \A id \in AllIds :
              (Has(id) /\ conversations[id].needsReply)
              => conversations'[id] = conversations[id]
       /\ CleanupApp =>
            \A id \in AllIds :
              (HasLog(id) /\ messageLog[id].needsReply)
              => messageLog'[id] = messageLog[id]]_vars

(* The retention sweep has just deleted a record and kept one that awaits a
   reply and whose message is older than the retention window. *)
C14_OldPendingRecordKept ==
  /\ variant = "p5" /\ last = "cleanup:deleted"
  /\ Has(Operator) /\ conversations[Operator].needsReply
  /\ now - conversations[Operator].userMessage.timestamp > oneDayMs

(* C15, as stated: a step of the retention sweep deletes every record that
   does not await a reply and whose message is at least the retention window
   old, the window's boundary included, however needsReply was cleared. *)
C15_CleanupDeletesResolved ==
  [][last' \in {"cleanup:kept", "cleanup:deleted"} =>
       /\ Cleanup =>
            \A id \in AllIds :
              (/\ Has(id) /\ ~conversations[id].needsReply
               /\ conversations[id].userMessage.set
               /\ now - conversations[id].userMessage.timestamp >= oneDayMs)
              => ~conversations'[id].exists
       /\ CleanupApp =>
            \A id \in AllIds :
              (/\ HasLog(id) /\ ~messageLog[id].needsReply
               /\ now - messageLog[id].timestamp >= oneDayInMs)
              => ~messageLog'[id].exists]_vars

(* C16: the step that processes a RESET command leaves every record with
   needsReply = FALSE, and creates and deletes no record (part_004 and
   app.js). *)
C16_ResetClearsEveryRecord ==
  [][last' = "reset:cleared" =>
       \A id \in AllIds :
         /\ ~conversations'[id].needsReply
         /\ conversations'[id].exists = conversations[id].exists
         /\ ~messageLog'[id].needsReply
         /\ messageLog'[id].exists = messageLog[id].exists]_vars

(* A RESET has just been processed with two records in the store, one of
   them of another user and reminded of before. *)
C16_ResetWithTwoRecords ==
  /\ variant = "p4" /\ last = "reset:cleared"
  /\ \A id \in Users : Has(id) /\ hist[id] = "Cleared"
  /\ \E id \in Users \ {Operator} : conversations[id].reminderCount > 0

(* C17, as stated: neither the step that handles a status command nor the
   return of the reply that answers it changes any record. *)
C17_StatusChangesNothing ==
  [][(variant # "app" /\ conversations' # conversations) =>
       /\ last' \notin {"status:replying", "event:reported"}
       /\ \A e \in tasks, ok \in BOOLEAN :
            e.command = "status" => ~ReplyAndRecord(e, ok)]_vars

(* C18, as stated: when a mark-replied operation on an existing conversation
   is over (POST /api/mark-as-replied has answered; the acknowledgement of
   the inline command was delivered or has failed) and no new message of
   the user was recorded meanwhile, the record has needsReply = FALSE,
   lastReminderTime = 0 and reminderCount = 0, and the operation's steps
   change no other record. *)
C18_MarkRepliedClearsBookkeeping ==
  [][variant = "p4" =>
       LET cleared(c) == ~c.needsReply /\ c.lastReminderTime = 0 /\ c.reminderCount = 0
           others(u) == \A id \in AllIds \ {u} : conversations'[id] = conversations[id]
       IN
       /\ \A u \in Targets :
            (Has(u) /\ MarkAsReplied(u, "api"))
            => cleared(conversations'[u]) /\ others(u)
       /\ last' \in {"mark:cleared", "mark:unknown"} => others(Operator)
       /\ \A e \in tasks, ok \in BOOLEAN :
            (/\ e.command = "mark" /\ Has(e.userId)
             /\ hist[e.userId] # "UserMessage" /\ ReplyAndRecord(e, ok))
            => cleared(conversations'[e.userId]) /\ others(e.userId)]_vars

(* C19, as stated: an operation other than a user message that names a
   conversation without a record reports that it was not found and changes
   no record. *)
C19_UnknownConversationNotFound ==
  [][(variant = "p4" \/ variant = "p5") =>
       \A u \in Targets :
         ~Has(u) =>
           /\ \A p \in {"web", "api"} :
                MarkAsReplied(u, p)
                => (last' = p \o ":notfound" /\ conversations' = conversations)
           /\ ForceRemindBegin(u)
                => (last' = "force:notfound" /\ conversations' = conversations)
           /\ \A s \in tasks :
                (s.userId = u /\ SendReplyReturn(s, TRUE))
                => (last' = "send:notfound" /\ conversations' = conversations)]_vars

(* C20: a message from a group or room whose text is not one of the commands
   the filter lets through ends at the filter, before any notification is
   sent: the step creates and changes no record, issues no token, starts no
   reply and emits no reminder. *)
C20_GroupMessagesDropped ==
  [][(variant # "app" /\ last' \in {"event:skipped"} \cup Recorded) =>
       \A i \in Events :
         (/\ i.sourceType \in {"group", "room"}
          /\ i.text \notin {"status", "debuglog", "reset", "mark"}
          /\ HandleLineEvent(i.userId, i.text, i.sourceType, i.isFromUser, i.timestamp))
         => /\ last' = "event:skipped"
            /\ UNCHANGED <<conversations, keys, tasks, tokens, emitLog, hist>>]_vars

(* A group message has just been dropped while the sender's one-to-one
   conversation awaits a reply. *)
C20_GroupMessageWhilePending ==
  /\ variant = "p5" /\ last = "event:skipped"
  /\ Has(Operator) /\ conversations[Operator].needsReply
  /\ conversations[Operator].sourceType = "user"

(* C21, as stated: what an endpoint that asks for no token answers does not
   depend on the tokens of the records: the list of conversations is the
   same as for a store that differs in nothing but the tokens. *)
C21_ListingIndependentOfTokens ==
  last = "list:conversations" =>
    \A k \in 1..MaxSweepTokens :
      ConversationsListing(conversations)
        = ConversationsListing([id \in AllIds |->
            IF conversations[id].exists
            THEN [conversations[id] EXCEPT !.securityToken = k]
            ELSE conversations[id]])

(* C22: with the sweep's timer firing again and again and every notification
   call returning, a one-to-one conversation whose first reminder or next
   reminder is due (its message at least threeHoursMs old and no reminder
   yet, or its last reminder at least threeHoursMs ago; in app.js its
   message at least oneMinuteInMs old) is reminded of, unless it stops
   awaiting that reminder first (answered, or written to again). *)
C22_DueConversationEventuallyReminded ==
  \A u \in AllIds :
    LET c == conversations[u]
        m == messageLog[u]
        due == \/ /\ c.exists /\ c.needsReply /\ c.userMessage.set
                  /\ c.sourceType = "user"
                  /\ IF c.lastReminderTime = 0
                     THEN now - c.userMessage.timestamp >= threeHoursMs
                     ELSE now - c.lastReminderTime >= threeHoursMs
               \/ /\ m.exists /\ m.needsReply
                  /\ now - m.timestamp >= oneMinuteInMs
        reminded == \E i \in 1..Len(emitLog) : emitLog[i].userId = u
    IN due ~> (reminded \/ ~due)

(* A sweep is sending the second reminder of a conversation that has stayed
   unanswered for two intervals. *)
C22_SecondReminderUnderWay ==
  /\ variant = "p5"
  /\ \E s \in Sweeps : Head(s.unreplied) = [userId |-> "U2", reminderCount |-> 2]
  /\ \E i \in 1..Len(emitLog) : emitLog[i].userId = "U2"
  /\ conversations["U2"].reminderCount = 1
  /\ conversations["U2"].lastReminderTime = now - threeHoursMs

(* C23: a firing of the sweep's timer while a sweep is in progress is
   dropped: the step emits no reminder, changes no record, leaves the busy
   flag set, and leaves nothing behind that would run later. *)
C23_BusyTriggerDropped ==
  [][(isCheckingUnreplied /\ (SweepTrigger \/ SweepTriggerApp)) =>
       /\ last' = "sweep:skipped"
       /\ UNCHANGED <<conversations, keys, messageLog, isCheckingUnreplied,
                      tasks, tokens, emitLog, hist>>]_vars

(* The timer of app.js fired while its batch reminder was awaiting the
   notification. *)
C23_TriggerDroppedWhileReporting ==
  /\ variant = "app" /\ last = "sweep:skipped"
  /\ isCheckingUnreplied /\ Cardinality(Sweeps) = 1 /\ emitLog # <<>>

(* C24, as stated: a record's lastReminderTime, when set, is the time of a
   reminder emitted for the message the record holds, so it is not earlier
   than the time that message was received. *)
C24_ReminderIsForCurrentMessage ==
  variant = "p5" =>
    \A id \in AllIds :
      (Has(id) /\ conversations[id].lastReminderTime # 0)
      => conversations[id].lastReminderTime >= conversations[id].userMessage.timestamp

(* C25, as stated: every reminder whose notification was delivered, by the
   sweep or by POST /api/force-remind, raises the record's reminderCount by
   exactly one when its handler writes the bookkeeping, also when the two
   overlap. *)
C25_EveryReminderCounted ==
  [][(variant = "p5" /\ tasks' # tasks) =>
       /\ \A f \in tasks :
            (ForceRemindResume(f, TRUE) /\ Has(f.userId))
            => conversations'[f.userId].reminderCount
                 = conversations[f.userId].reminderCount + 1
       /\ \A s \in Sweeps :
            (SweepResume(s, TRUE) /\ Has(Head(s.unreplied).userId))
            => LET u == Head(s.unreplied).userId
               IN conversations'[u].reminderCount = conversations[u].reminderCount + 1]_vars

(* C26, as stated: in app.js a user message recorded while an auto-reply or
   a /api/send-reply push for the same conversation is in flight is not
   marked replied when that push completes.  The step before was the
   recording of a plain message, which starts no task, and the conversation
   of the task is the only one in the log, so the message is the task's
   conversation's and arrived after the push was started. *)
C26_LaterMessageStaysPending ==
  [][(variant = "app" /\ last = "message:recorded" /\ tasks' # tasks) =>
       \A t \in tasks :
         ( /\ \A id \in AllIds : HasLog(id) => id = t.userId
           /\ sendAutoReply(t, TRUE) \/ SendReplyReturnApp(t, TRUE) )
         => messageLog'[t.userId].needsReply]_vars

(* C27, as stated: in part_005 the time of the message a record holds never
   decreases, also when the handlers of one webhook batch write in another
   order than the events were stamped. *)
C27_MessageTimeNeverDecreases ==
  [][variant = "p5" =>
       \A id \in AllIds :
         conversations'[id].userMessage.timestamp
           >= conversations[id].userMessage.timestamp]_vars

(* C29: in part_004 and app.js a repliable message whose text is exactly
   one of the command strings (reset, mark-replied, status, debug-log)
   leaves the stored message of every record as it was and sets no
   needsReply to true; any other text of a one-to-one chat, a command in
   another letter case included, is stored as the conversation's message
   with needsReply = true. *)
C29_CommandsExactOthersRecorded ==
  [][(variant = "p4" \/ variant = "app") =>
       \A x \in BatchTexts, ts \in 1..now :
         ( \/ HandleLineEvent(Operator, x, "user", TRUE, ts)
           \/ handleEvent(Operator, x, "user", TRUE, ts) )
         => IF x = "reset" \/ x = "mark" \/ x = "status" \/ x = "debuglog"
            THEN \A id \in AllIds :
                   /\ conversations'[id].userMessage = conversations[id].userMessage
                   /\ conversations'[id].needsReply => conversations[id].needsReply
                   /\ messageLog'[id].messageText = messageLog[id].messageText
                   /\ messageLog'[id].timestamp = messageLog[id].timestamp
                   /\ messageLog'[id].needsReply => messageLog[id].needsReply
            ELSE IF variant = "p4"
            THEN /\ conversations'[Operator].userMessage = Message(x, ts)
                 /\ conversations'[Operator].needsReply
            ELSE /\ messageLog'[Operator].messageText = x
                 /\ messageLog'[Operator].timestamp = ts
                 /\ messageLog'[Operator].needsReply]_vars

(* A command in another letter case was stored as the user's message, and
   the exact command handled after it left it stored. *)
C29_CaseVariantStoredThenCommand ==
  /\ variant = "p4"
  /\ last = "status:replying"
  /\ Has(Operator)
  /\ conversations[Operator].userMessage.text = "Status"
  /\ conversations[Operator].needsReply

(* C28: in part_004 and part_005 every entry the sweep has selected, and
   every reminder it has handed to the notification call, belongs to a
   record of a one-to-one chat; the record of a group or of a room is never
   among them, whatever its needsReply, message time and reminder time. *)
C28_OnlyIndividualsSelected ==
  /\ \A s \in Sweeps : \A i \in 1..Len(s.unreplied) :
        conversations[s.unreplied[i].userId].sourceType = "user"
  /\ \A i \in 1..Len(emitLog) :
        conversations[emitLog[i].userId].sourceType = "user"

(* A sweep is reminding about a one-to-one chat while the record of a group
   or room is unanswered and as old. *)
C28_SweepPassedOverGroupRecord ==
  /\ Sweeps # {}
  /\ emitLog # <<>>
  /\ \E id \in Users :
        /\ conversations[id].sourceType \in {"group", "room"}
        /\ conversations[id].needsReply
        /\ conversations[id].lastReminderTime = 0
        /\ now - conversations[id].userMessage.timestamp >= threeHoursMs

(* C30: in part_005 and app.js the flag isCheckingUnreplied is set exactly
   while a cron callback of the reminder sweep is in flight; once set it is
   reset, also by a callback whose body threw; and a firing of the timer
   while no callback is in flight is not skipped. *)
C30_FlagHeldOnlyWhileSweeping ==
  /\ [](isCheckingUnreplied <=> Sweeps # {})
  /\ isCheckingUnreplied ~> ~isCheckingUnreplied
  /\ [][(Sweeps = {} /\ (SweepTrigger \/ SweepTriggerApp))
         => last' # "sweep:skipped"]_vars

(* The body of a sweep threw and the callback left the flag reset. *)
C30_FlagResetAfterThrow ==
  last = "sweep:aborted" /\ ~isCheckingUnreplied /\ Sweeps = {}

(* C31: a step of the reminder sweep of part_005 adds and removes no record
   and leaves needsReply, the stored message, the stored reply and the
   source of every record as they were; it writes lastReminderTime and
   reminderCount only on the existing record of the entry it has just
   notified about, and a security token only where the record had none. *)
C31_SweepWritesOnlyReminderFields ==
  [][(variant = "p5" /\ conversations' # conversations
        /\ (SweepTrigger \/ \E s \in Sweeps, ok \in BOOLEAN : SweepResume(s, ok))) =>
       /\ keys' = keys
       /\ \A id \in AllIds :
            LET c == conversations[id]
                d == conversations'[id]
            IN /\ d.exists = c.exists
               /\ d.needsReply = c.needsReply
               /\ d.userMessage = c.userMessage
               /\ d.botReply = c.botReply
               /\ d.sourceType = c.sourceType
               /\ d.securityToken # c.securityToken
                    => c.exists /\ c.securityToken = NoToken
               /\ (d.lastReminderTime # c.lastReminderTime
                     \/ d.reminderCount # c.reminderCount)
                    => /\ c.exists
                       /\ \E s \in Sweeps : Head(s.unreplied).userId = id]_vars

(* The sweep has written its bookkeeping on a record and goes on to the
   next entry; the record is as pending as before. *)
C31_SweepWroteAndGoesOn ==
  /\ variant = "p5"
  /\ last = "sweep:next"
  /\ \E id \in AllIds :
        /\ Has(id) /\ conversations[id].needsReply
        /\ conversations[id].userMessage.set
        /\ conversations[id].lastReminderTime = now
        /\ conversations[id].reminderCount > 0

(* C32: the response of GET /api/debug-reminder of part_005 reports
   shouldSendReminder YES for exactly the records, in the same order, that
   a reminder sweep reading the store at the same instant puts on its list,
   and the request leaves the store as it was. *)
C32_DiagnosisAgreesWithSweep ==
  [][GetDebugReminder =>
       /\ conversations' = conversations /\ keys' = keys
       /\ LET due == Unreplied(conversations', keys', now')
          IN DebugReminderYes(conversations', keys', now')
               = [i \in 1..Len(due) |-> due[i].userId]]_vars

(* The diagnosis was asked for a store where one record is due for a repeated
   reminder and another one is pending but not due. *)
C32_DiagnosisWithYesAndNo ==
  /\ last = "debug:reminder"
  /\ \E id \in Users :
        /\ DebugShouldSend(conversations[id], now) = "YES"
        /\ conversations[id].lastReminderTime # 0
  /\ \E id \in Users : DebugShouldSend(conversations[id], now) = "NO"

(* C33, as stated: in app.js every stored message that is pending, with no
   auto-reply for its conversation still under way, has had its new-message
   notification attempted.  handleEvent attempts that notification for the
   texts no pattern matches (isAutoHandled = false, lines 351-353) and for
   no other, so the stored text tells whether it was attempted. *)
C33_PendingMessageWasNotified ==
  variant = "app" =>
    \A u \in AllIds :
      ( /\ HasLog(u) /\ messageLog[u].needsReply
        /\ ~\E a \in tasks : a.kind = "auto" /\ a.userId = u )
      => autoReplyPatterns(messageLog[u].messageText) = "none"

(* C34: in app.js a mark-as-replied request for a user, which answers by
   the return value of markAsReplied, succeeds exactly when the log has an
   entry of that user with needsReply = TRUE; it then clears needsReply,
   stamps repliedAt with the current time and touches nothing else, and a
   second call in the state it leaves returns false and changes nothing;
   when it does not succeed the log is left as it was. *)
C34_MarkAsRepliedOnceOnly ==
  [][variant = "app" =>
       \A u \in Users, p \in {"web", "api"} :
         MarkAsRepliedApp(u, p) =>
           IF messageLog[u].exists /\ messageLog[u].needsReply
           THEN /\ last' = p \o ":ok"
                /\ messageLog' = [messageLog EXCEPT ![u].needsReply = FALSE,
                                                     ![u].repliedAt = now]
                /\ ~markAsRepliedSucceeds(messageLog', u)
                /\ markAsReplied(messageLog', u, now') = messageLog'
           ELSE /\ last' = p \o ":notfound"
                /\ messageLog' = messageLog]_vars

(* A second request right after a successful one was answered "not found"
   and the entry is as the first one left it. *)
C34_SecondMarkFoundNothing ==
  /\ variant = "app"
  /\ last = "api:notfound"
  /\ HasLog(Operator)
  /\ ~messageLog[Operator].needsReply
  /\ messageLog[Operator].repliedAt = now

(* C35, as stated: a webhook request without a signature, with a signature
   that is not the digest of its body, or with a body that has no events
   array is answered 400, and no record, log entry, handler or notification
   comes of it. *)
C35_BadWebhookAnswered400 ==
  [][\A signature \in Signatures, body \in Bodies :
       ( /\ PostWebhook(signature, body)
         /\ signature = NoSignature \/ signature # Hmac(body) \/ body # "events" )
       => /\ last' = "webhook:400"
          /\ UNCHANGED <<conversations, keys, messageLog, tasks, emitLog>>]_vars

(* C36, as stated: in part_005 a token that was used for a confirmation
   keeps passing the token check of the conversation until the next message
   of that conversation is recorded (for the test conversation: until it is
   created anew). *)
C36_UsedTokenValidUntilNextMessage ==
  [][variant = "p5" =>
       \A u \in AllIds, k \in 1..tokens :
         ( /\ hist[u] = "Cleared" /\ TokenCheck(u, k) = "ok"
           /\ hist'[u] # "UserMessage" /\ hist'[u] # "TestCreate" )
         => TokenCheck(u, k)' = "ok"]_vars

(* C36, amended: in part_005 a token that was used for a confirmation keeps
   passing the token check until the next message of the conversation is
   recorded or the retention sweep deletes the record; while it passes, the
   confirmation request with that token succeeds again and leaves the
   record as the first use left it: answered, with no reminder counted, and
   with the same message and token. *)
C36_UsedTokenValidWhileRecordKept ==
  [][variant = "p5" =>
       \A u \in AllIds, k \in 1..tokens :
         (hist[u] = "Cleared" /\ TokenCheck(u, k) = "ok") =>
           /\ ( /\ hist'[u] # "UserMessage" /\ hist'[u] # "TestCreate"
                /\ hist'[u] # "Deleted" )
              => TokenCheck(u, k)' = "ok"
           /\ MarkAsRepliedWeb(u, k) =>
                /\ last' = "web:ok"
                /\ conversations'[u] =
                     [conversations[u] EXCEPT !.needsReply = FALSE,
                                              !.lastReminderTime = 0,
                                              !.reminderCount = 0]
                /\ conversations'[u].securityToken = k]_vars

(* The link of a notification was followed again after its confirmation
   had been made, and the token was accepted. *)
C36_UsedTokenAcceptedAgain ==
  /\ variant = "p5"
  /\ last = "confirm:ok"
  /\ Has(Operator)
  /\ hist[Operator] = "Cleared"
  /\ ~conversations[Operator].needsReply

(* C37: the debug log of app.js and part_005 never holds more entries than
   its capacity and its entries are ordered newest first; a call of logDebug
   puts the new entry in front, keeps the entries it had in their order, and
   drops the oldest one, the last, when the capacity would be exceeded. *)
C37_DebugLogBoundedNewestFirst ==
  /\ [](/\ Len(debugLogs) <= maxDebugLogs
        /\ \A i \in 1..Len(debugLogs) : \A j \in i..Len(debugLogs) :
             debugLogs[i].timestamp >= debugLogs[j].timestamp)
  /\ [][debugLogs' # debugLogs =>
         /\ Head(debugLogs').timestamp = now
         /\ Len(debugLogs') = IF Len(debugLogs) = maxDebugLogs
                              THEN maxDebugLogs ELSE Len(debugLogs) + 1
         /\ \A i \in 2..Len(debugLogs') : debugLogs'[i] = debugLogs[i - 1]]_vars

(* The log is full, an entry was added, and the log holds entries of
   different times. *)
C37_FullLogTurnedOver ==
  /\ last = "log:added"
  /\ Len(debugLogs) = maxDebugLogs
  /\ debugLogs[1].timestamp > debugLogs[maxDebugLogs].timestamp
  /\ debugLogs[maxDebugLogs].timestamp > 1

====
